---------------------------- MODULE Spec2Model ----------------------------
(***************************************************************************)
(* Model of the EMA/RSI spot scalper: the indicator calculator, the entry  *)
(* and exit evaluators, the position sizer and the live loop with its      *)
(* retries (strategies/ema_scalper.py), and the backtest simulator with    *)
(* its metrics (backtest/backtest_runner.py).                              *)
(*                                                                         *)
(* Numbers.  Prices, volumes and balances are integers; timestamps are     *)
(* whole minutes.  Every quotient the code forms (an EMA, the RSI, the     *)
(* volume ratio, a percentage) is kept as an exact fraction [n, d] and     *)
(* compared by cross-multiplication, so no comparison is rounded.  A NaN   *)
(* is a value of its own (nan |-> TRUE) and every comparison with it is    *)
(* FALSE, as in IEEE arithmetic.  Percent thresholds of StrategyConfig are *)
(* held in tenths of a percent (1.5 % is 15), volume_spike_threshold in    *)
(* hundredths (1.15 is 115), max_position_size in tenths (0.1 is 1).       *)
(***************************************************************************)
EXTENDS Integers, Sequences, FiniteSets, TLC

VARIABLES
    config,            \* EMARSIScalper.config (StrategyConfig)
    current_position,  \* EMARSIScalper.current_position (None, or the buy trade)
    df,                \* the indicator frame of the run (bars + indicators)
    i,                 \* number of bars the loop of run_backtest has processed
    pc,                \* where the driver is
    position,          \* BacktestRunner.position
    current_balance,   \* BacktestRunner.current_balance
    trades,            \* run_backtest's local ledger
    results,           \* BacktestRunner.results
    runs,              \* run_backtest invocations made on this runner
    ret,               \* what the last call returned (with its arguments)
    trade_history,     \* EMARSIScalper.trade_history
    retry_count,       \* EMARSIScalper.retry_count
    mode,              \* run_strategy's mode argument
    order_amount       \* run_strategy's local position_size, the amount of its order

\* the variables only the live loop writes
live_vars == <<trade_history, retry_count, mode, order_amount>>

vars == <<config, current_position, df, i, pc, position, current_balance,
          trades, results, runs, ret, live_vars>>

----------------------------------------------------------------------------
(* Bounds of the model *)

\* longest bar sequence a run is given
MaxBars == 5

\* run_backtest invocations on one runner
MaxRuns == 2

\* closes and volumes of a bar, and the timeframes (minutes per bar) of a fetch
Prices == {990, 1000}
Volumes == {0, 1}
Timeframes == {30}

\* entry prices and entry times handed to should_exit by the evaluator driver
EntryPrices == {980, 990, 1000, 1010}
EntryTimes == {0, 1, 26, 30}

\* the timeframes of the histories handed to the evaluators on their own
EvalTimeframes == {10, 30}

\* longest ledger handed to calculate_metrics on its own, and the percent
\* results of its trades
MaxTrades == 3
TradePcts == {-20, 0, 5, 10}

\* balances, prices and position fractions (in tenths) handed to
\* calculate_position_size by the sizer driver
SizerBalances == {-100, 0, 10, 100, 500, 990, 1000, 1010, 2000, 10000}
SizerPrices == {1, 990, 1000, 50000}
MaxPositionSizes == {1, 5, 10}

\* the live loop: longest candle frame a fetch returns, the free balances
\* the exchange reports, and the length of trade_history at which the loop
\* is no longer followed
MaxLiveBars == 4
LiveBalances == {1000}
MaxLiveTrades == 3

----------------------------------------------------------------------------
(* Optional values: Python's None is the empty sequence *)

None == <<>>

Some(x) == <<x>>

----------------------------------------------------------------------------
(* StrategyConfig.  The thresholds are the dataclass defaults; the spans    *)
(* and periods are short ones, so that the trend window fills within       *)
(* MaxBars bars.                                                           *)

StrategyConfig ==
    [ ema_fast |-> 1, ema_slow |-> 2, ema_trend |-> 3,
      rsi_period |-> 2, rsi_lower |-> 45, rsi_upper |-> 65,
      volume_ma_period |-> 2, volume_spike_threshold |-> 115,
      take_profit_pct |-> 15, stop_loss_pct |-> 8,
      trailing_stop_pct |-> 5, trailing_stop_activation_pct |-> 10,
      max_position_size |-> 1,
      max_holding_time |-> 30, min_holding_time |-> 5 ]

Configs == {StrategyConfig}

initial_balance == 1000

----------------------------------------------------------------------------
(* Exact fractions and NaN *)

Frac(n, d) == [nan |-> FALSE, n |-> n, d |-> d]

NaN == [nan |-> TRUE, n |-> 0, d |-> 1]

\* a < b, a <= b on floats: FALSE as soon as one side is NaN (denominators > 0)
FLt(a, b) == ~a.nan /\ ~b.nan /\ a.n * b.d < b.n * a.d

FLe(a, b) == ~a.nan /\ ~b.nan /\ a.n * b.d <= b.n * a.d

Int2F(x) == Frac(x, 1)

\* float arithmetic on exact fractions; NaN propagates, 0/0 is NaN
\* (denominators are kept positive)
FAdd(a, b) == IF a.nan \/ b.nan THEN NaN ELSE Frac(a.n * b.d + b.n * a.d, a.d * b.d)

FSub(a, b) == IF a.nan \/ b.nan THEN NaN ELSE Frac(a.n * b.d - b.n * a.d, a.d * b.d)

FMul(a, b) == IF a.nan \/ b.nan THEN NaN ELSE Frac(a.n * b.n, a.d * b.d)

FDiv(a, b) ==
    IF a.nan \/ b.nan \/ b.n = 0 THEN NaN
    ELSE IF b.n > 0 THEN Frac(a.n * b.d, a.d * b.n)
    ELSE Frac(-(a.n * b.d), -(a.d * b.n))

RECURSIVE Pow(_, _)
Pow(b, e) == IF e = 0 THEN 1 ELSE b * Pow(b, e - 1)

Min(a, b) == IF a <= b THEN a ELSE b

----------------------------------------------------------------------------
(* Bars: what fetch_historical_data returns *)

Bar(t, c, v) == [timestamp |-> t, close |-> c, volume |-> v]

\* all bar sequences of length n on one timeframe: bar k opens (k-1)*tf
\* minutes after the first, so timestamps increase strictly
RECURSIVE BarSeqs(_, _)
BarSeqs(tf, n) ==
    IF n = 0 THEN {<<>>}
    ELSE UNION {{Append(s, Bar((n - 1) * tf, c, v)) : c \in Prices, v \in Volumes} :
                s \in BarSeqs(tf, n - 1)}

Histories == UNION {BarSeqs(tf, n) : tf \in Timeframes, n \in 0..MaxBars}

----------------------------------------------------------------------------
(* Indicator calculator: EMARSIScalper.calculate_indicators *)

\* df['close'].ewm(span).mean() at row k (pandas' default adjust=True):
\*   sum_j (1-a)^(k-j) x_j / sum_j (1-a)^(k-j),  a = 2/(span+1),
\* numerator and denominator both scaled by (span+1)^(k-1)
RECURSIVE EwmNum(_, _, _)
EwmNum(bars, span, k) ==
    IF k = 1 THEN bars[1].close
    ELSE Pow(span + 1, k - 1) * bars[k].close + (span - 1) * EwmNum(bars, span, k - 1)

RECURSIVE EwmDen(_, _)
EwmDen(span, k) ==
    IF k = 1 THEN 1
    ELSE Pow(span + 1, k - 1) + (span - 1) * EwmDen(span, k - 1)

ewm_mean(bars, span, k) == Frac(EwmNum(bars, span, k), EwmDen(span, k))

\* delta = df['close'].diff(): NaN at the first row.
\* delta.where(delta > 0, 0): NaN > 0 is False, so the first row becomes 0
gain_raw(bars) ==
    [k \in 1..Len(bars) |->
        IF k > 1 /\ bars[k].close - bars[k - 1].close > 0
        THEN bars[k].close - bars[k - 1].close ELSE 0]

\* -delta.where(delta < 0, 0)
loss_raw(bars) ==
    [k \in 1..Len(bars) |->
        IF k > 1 /\ bars[k].close - bars[k - 1].close < 0
        THEN bars[k - 1].close - bars[k].close ELSE 0]

volume_col(bars) == [k \in 1..Len(bars) |-> bars[k].volume]

\* sum of series[lo .. hi]
RECURSIVE WindowSum(_, _, _)
WindowSum(series, lo, hi) ==
    IF lo > hi THEN 0 ELSE series[hi] + WindowSum(series, lo, hi - 1)

\* mutant: the window is centred on row k, so it takes in row k+1
rolling_mean_centered(series, window, k) ==
    IF k < window THEN NaN
    ELSE Frac(WindowSum(series, k - window + 2, Min(k + 1, Len(series))), window)

\* series.rolling(window).mean() at row k: NaN until the window is full,
\* then the mean of the trailing window [k-window+1 .. k]
rolling_mean(series, window, k) ==
    IF k < window THEN NaN
    ELSE Frac(WindowSum(series, k - window + 1, k), window)

\* rs = gain / loss; rsi = 100 - 100 / (1 + rs)
\*   a NaN mean, or 0/0 -> NaN;  g/0 with g > 0 -> inf -> rsi 100;
\*   else 100 - 100/(1 + g/l) = 100 g / (g + l)
rsi_of(gain, loss) ==
    IF gain.nan \/ loss.nan THEN NaN
    ELSE IF loss.n = 0 /\ gain.n = 0 THEN NaN
    ELSE Frac(100 * gain.n * loss.d, gain.n * loss.d + loss.n * gain.d)

\* df['volume'] / df['volume_ma']: NaN for a NaN mean and for 0/0
\* (volumes are >= 0, so a zero mean means a zero volume)
volume_ratio_of(volume, volume_ma) ==
    IF volume_ma.nan THEN NaN
    ELSE IF volume_ma.n = 0 THEN NaN
    ELSE Frac(volume * volume_ma.d, volume_ma.n)

indicator_row(cfg, bars, k) ==
    [ timestamp |-> bars[k].timestamp,
      close |-> bars[k].close,
      volume |-> bars[k].volume,
      ema_fast |-> ewm_mean(bars, cfg.ema_fast, k),
      ema_slow |-> ewm_mean(bars, cfg.ema_slow, k),
      ema_trend |-> ewm_mean(bars, cfg.ema_trend, k),
      rsi |-> rsi_of(rolling_mean(gain_raw(bars), cfg.rsi_period, k),
                     rolling_mean(loss_raw(bars), cfg.rsi_period, k)),
      volume_ratio |-> volume_ratio_of(bars[k].volume,
                          rolling_mean(volume_col(bars), cfg.volume_ma_period, k)) ]

calculate_indicators(cfg, bars) ==
    [k \in 1..Len(bars) |-> indicator_row(cfg, bars, k)]

\* the bars of an indicator frame (its raw columns)
BarsOf(d) == [k \in 1..Len(d) |-> Bar(d[k].timestamp, d[k].close, d[k].volume)]

\* df.iloc[:n]
iloc_to(d, n) == SubSeq(d, 1, n)

----------------------------------------------------------------------------
(* Entry rule evaluator: EMARSIScalper.should_enter *)

Result(ok, reason) == [ok |-> ok, reason |-> reason]

\* the checks after the length guard, on the last row(s) of the history d;
\* the reasons are the messages without their formatted numbers
entry_rules(cfg, d) ==
    LET n == Len(d) IN
    IF FLe(Int2F(d[n].close), d[n].ema_trend)
    THEN Result(FALSE, "Price below 200 EMA")
    ELSE IF ~(FLe(d[n - 1].ema_fast, d[n - 1].ema_slow) /\ FLt(d[n].ema_slow, d[n].ema_fast))
    THEN Result(FALSE, "No EMA crossover")
    ELSE IF ~(FLe(Int2F(cfg.rsi_lower), d[n].rsi) /\ FLe(d[n].rsi, Int2F(cfg.rsi_upper)))
    THEN Result(FALSE, "RSI outside range")
    ELSE IF FLt(d[n].volume_ratio, Frac(cfg.volume_spike_threshold, 100))
    THEN Result(FALSE, "No volume spike")
    ELSE Result(TRUE, "All conditions met")

\* mutant: the length guard is off by one
should_enter_off_by_one(cfg, d) ==
    IF Len(d) < cfg.ema_trend - 1 THEN Result(FALSE, "Insufficient data")
    ELSE entry_rules(cfg, d)

\* d is the history handed in (current_data)
should_enter(cfg, d) ==
    IF Len(d) < cfg.ema_trend THEN Result(FALSE, "Insufficient data")
    ELSE entry_rules(cfg, d)

----------------------------------------------------------------------------
(* Exit rule evaluator: EMARSIScalper.should_exit *)

\* (current_time - entry_time).total_seconds() / 60
holding_time_of(d, entry_time) == d[Len(d)].timestamp - entry_time

\* ((current_price - entry_price) / entry_price) * 100, entry_price > 0
pnl_pct_of(current_price, entry_price) ==
    FMul(FDiv(Int2F(current_price - entry_price), Int2F(entry_price)), Int2F(100))

\* entry_price * (1 + (pnl_pct - trailing_stop_pct) / 100)
trailing_stop_price_of(cfg, entry_price, pnl_pct) ==
    FMul(Int2F(entry_price),
         FAdd(Int2F(1), FDiv(FSub(pnl_pct, Frac(cfg.trailing_stop_pct, 10)), Int2F(100))))

\* mutant: the EMA cross exit wants the fast EMA strictly above the slow one
\* on the bar before
exit_rules_after_min_strict_cross(cfg, d, entry_price, entry_time) ==
    LET n == Len(d)
        current_price == d[n].close
        holding_time == holding_time_of(d, entry_time)
        pnl_pct == pnl_pct_of(current_price, entry_price)
    IN
    IF FLe(Frac(cfg.take_profit_pct, 10), pnl_pct)
    THEN Result(TRUE, "Take profit hit")
    ELSE IF FLe(pnl_pct, Frac(-cfg.stop_loss_pct, 10))
    THEN Result(TRUE, "Stop loss hit")
    ELSE IF FLe(Frac(cfg.trailing_stop_activation_pct, 10), pnl_pct)
            /\ FLt(Int2F(current_price), trailing_stop_price_of(cfg, entry_price, pnl_pct))
    THEN Result(TRUE, "Trailing stop hit")
    ELSE IF holding_time >= cfg.min_holding_time
            /\ FLt(d[n - 1].ema_slow, d[n - 1].ema_fast)
            /\ FLt(d[n].ema_fast, d[n].ema_slow)
    THEN Result(TRUE, "EMA cross exit")
    ELSE Result(FALSE, "Holding position")

\* take profit, stop loss, trailing stop, EMA cross, else hold
exit_rules_after_min(cfg, d, entry_price, entry_time) ==
    LET n == Len(d)
        current_price == d[n].close
        holding_time == holding_time_of(d, entry_time)
        pnl_pct == pnl_pct_of(current_price, entry_price)
    IN
    IF FLe(Frac(cfg.take_profit_pct, 10), pnl_pct)
    THEN Result(TRUE, "Take profit hit")
    ELSE IF FLe(pnl_pct, Frac(-cfg.stop_loss_pct, 10))
    THEN Result(TRUE, "Stop loss hit")
    ELSE IF FLe(Frac(cfg.trailing_stop_activation_pct, 10), pnl_pct)
            /\ FLt(Int2F(current_price), trailing_stop_price_of(cfg, entry_price, pnl_pct))
    THEN Result(TRUE, "Trailing stop hit")
    ELSE IF holding_time >= cfg.min_holding_time
            /\ FLe(d[n - 1].ema_slow, d[n - 1].ema_fast)
            /\ FLt(d[n].ema_fast, d[n].ema_slow)
    THEN Result(TRUE, "EMA cross exit")
    ELSE Result(FALSE, "Holding position")

\* mutant: the minimum-holding block is missing
exit_rules_unblocked(cfg, d, entry_price, entry_time) ==
    exit_rules_after_min(cfg, d, entry_price, entry_time)

\* no exit before the minimum holding time unless the stop loss is hit
exit_rules_after_max(cfg, d, entry_price, entry_time) ==
    IF holding_time_of(d, entry_time) < cfg.min_holding_time
       /\ FLt(Frac(-cfg.stop_loss_pct, 10), pnl_pct_of(d[Len(d)].close, entry_price))
    THEN Result(FALSE, "Minimum holding time not reached")
    ELSE exit_rules_after_min(cfg, d, entry_price, entry_time)

\* mutant: take profit is looked at before the maximum holding time
exit_rules_profit_first(cfg, d, entry_price, entry_time) ==
    IF FLe(Frac(cfg.take_profit_pct, 10), pnl_pct_of(d[Len(d)].close, entry_price))
    THEN Result(TRUE, "Take profit hit")
    ELSE IF holding_time_of(d, entry_time) >= cfg.max_holding_time
    THEN Result(TRUE, "Max holding time reached")
    ELSE exit_rules_after_max(cfg, d, entry_price, entry_time)

\* the rules below the position guard, in the order of the code: first the
\* forced exit at the maximum holding time
exit_rules(cfg, d, entry_price, entry_time) ==
    IF holding_time_of(d, entry_time) >= cfg.max_holding_time
    THEN Result(TRUE, "Max holding time reached")
    ELSE exit_rules_after_max(cfg, d, entry_price, entry_time)

\* cur_pos is the strategy object's own current_position
should_exit(cfg, cur_pos, d, entry_price, entry_time) ==
    IF cur_pos = None THEN Result(FALSE, "No position")
    ELSE exit_rules(cfg, d, entry_price, entry_time)

----------------------------------------------------------------------------
(* Position sizer: EMARSIScalper.calculate_position_size *)

\* mutant: the amount is a quantity of the asset, the budget over the price
calculate_position_size_in_units(cfg, balance, current_price) ==
    Min((balance * cfg.max_position_size) \div 10, balance) \div current_price

\* min(balance * max_position_size, balance); current_price is not used
calculate_position_size(cfg, balance, current_price) ==
    Min((balance * cfg.max_position_size) \div 10, balance)

----------------------------------------------------------------------------
(* Backtest simulator: BacktestRunner.run_backtest *)

\* what the loop carries from bar to bar
SimState(pos, balance, ledger) ==
    [position |-> pos, current_balance |-> balance, trades |-> ledger]

\* the state set up before the loop: trades = [], balance reset, position None
SimInit == SimState(None, initial_balance, <<>>)

\* mutant: the position's cost is not debited
open_position_no_debit(cfg, s, row) ==
    SimState(Some([entry_price |-> row.close,
                   amount |-> calculate_position_size(cfg, s.current_balance, row.close),
                   entry_time |-> row.timestamp,
                   entry_balance |-> s.current_balance]),
             s.current_balance,
             s.trades)

\* the entry branch: size the position, record it, debit its cost
open_position(cfg, s, row) ==
    LET current_price == row.close
        position_size == calculate_position_size(cfg, s.current_balance, current_price)
        position_cost == position_size * current_price
    IN SimState(Some([entry_price |-> current_price,
                      amount |-> position_size,
                      entry_time |-> row.timestamp,
                      entry_balance |-> s.current_balance]),
                s.current_balance - position_cost,
                s.trades)

\* mutant: the trade's exit_balance is read before the exit value is credited
close_position_stale_exit_balance(s, row, reason) ==
    LET pos == s.position[1]
        exit_value == pos.amount * row.close
        pnl == exit_value - pos.amount * pos.entry_price
        trade == [entry_time |-> pos.entry_time,
                  exit_time |-> row.timestamp,
                  entry_price |-> pos.entry_price,
                  exit_price |-> row.close,
                  amount |-> pos.amount,
                  pnl |-> pnl,
                  pnl_pct |-> FMul(FDiv(Int2F(pnl), Int2F(pos.amount * pos.entry_price)),
                                   Int2F(100)),
                  reason |-> reason,
                  entry_balance |-> pos.entry_balance,
                  exit_balance |-> s.current_balance]
    IN SimState(None, s.current_balance + exit_value, Append(s.trades, trade))

\* the exit branch (and the forced close): credit the exit value, append the
\* trade, clear the position
close_position(s, row, reason) ==
    LET pos == s.position[1]
        current_price == row.close
        exit_value == pos.amount * current_price
        pnl == exit_value - pos.amount * pos.entry_price
        pnl_pct == FMul(FDiv(Int2F(pnl), Int2F(pos.amount * pos.entry_price)), Int2F(100))
        balance == s.current_balance + exit_value
        trade == [entry_time |-> pos.entry_time,
                  exit_time |-> row.timestamp,
                  entry_price |-> pos.entry_price,
                  exit_price |-> current_price,
                  amount |-> pos.amount,
                  pnl |-> pnl,
                  pnl_pct |-> pnl_pct,
                  reason |-> reason,
                  entry_balance |-> pos.entry_balance,
                  exit_balance |-> balance]
    IN SimState(None, balance, Append(s.trades, trade))

\* mutant: the entry check is not guarded by `if not self.position`
process_bar_unguarded(cfg, cur_pos, s, d, n) ==
    IF should_enter(cfg, iloc_to(d, n)).ok
    THEN open_position(cfg, s, d[n])
    ELSE s

\* one iteration of the loop, on bar n (1-based) of the frame d; cur_pos is
\* the current_position of the runner's strategy object
process_bar(cfg, cur_pos, s, d, n) ==
    LET current_data == iloc_to(d, n) IN
    IF s.position = None
    THEN IF should_enter(cfg, current_data).ok
         THEN open_position(cfg, s, current_data[n])
         ELSE s
    ELSE LET r == should_exit(cfg, cur_pos, current_data,
                              s.position[1].entry_price, s.position[1].entry_time)
         IN IF r.ok THEN close_position(s, current_data[n], r.reason) ELSE s

\* mutant: the remaining position is booked but not cleared
force_close_keeps_position(s, d) ==
    IF s.position # None
    THEN [close_position(s, d[Len(d)], "Backtest period ended") EXCEPT !.position = s.position]
    ELSE s

\* after the loop: close any remaining position on the last bar
force_close(s, d) ==
    IF s.position # None
    THEN close_position(s, d[Len(d)], "Backtest period ended")
    ELSE s

----------------------------------------------------------------------------
(* Metrics calculator: BacktestRunner.calculate_metrics *)

RECURSIVE SumPnl(_)
SumPnl(ledger) ==
    IF ledger = <<>> THEN 0
    ELSE ledger[Len(ledger)].pnl + SumPnl(SubSeq(ledger, 1, Len(ledger) - 1))

Winning(ledger) == {k \in 1..Len(ledger) : ledger[k].pnl > 0}

\* trades_df[trades_df['pnl'] < 0]
Losing(ledger) == {k \in 1..Len(ledger) : ledger[k].pnl < 0}

RECURSIVE GCD(_, _)
GCD(a, b) == IF b = 0 THEN a ELSE GCD(b, a % b)

Abs(x) == IF x < 0 THEN -x ELSE x

\* the same number in lowest terms
FNorm(a) ==
    IF a.nan THEN NaN
    ELSE LET g == GCD(Abs(a.n), a.d) IN Frac(a.n \div g, a.d \div g)

\* +, -, *, / as above with the result in lowest terms, common factors
\* taken out before multiplying (the metrics are computed with these)
FAddR(a, b) ==
    IF a.nan \/ b.nan THEN NaN
    ELSE LET g == GCD(a.d, b.d)
         IN FNorm(Frac(a.n * (b.d \div g) + b.n * (a.d \div g), (a.d \div g) * b.d))

FSubR(a, b) ==
    IF a.nan \/ b.nan THEN NaN
    ELSE LET g == GCD(a.d, b.d)
         IN FNorm(Frac(a.n * (b.d \div g) - b.n * (a.d \div g), (a.d \div g) * b.d))

FMulR(a, b) ==
    IF a.nan \/ b.nan THEN NaN
    ELSE LET g1 == GCD(Abs(a.n), b.d)
             g2 == GCD(Abs(b.n), a.d)
         IN FNorm(Frac((a.n \div g1) * (b.n \div g2), (a.d \div g2) * (b.d \div g1)))

FDivR(a, b) ==
    IF a.nan \/ b.nan \/ b.n = 0 THEN NaN
    ELSE IF b.n > 0 THEN FMulR(a, Frac(b.d, b.n))
    ELSE FMulR(a, Frac(-b.d, -b.n))

FAbs(a) == IF a.nan THEN NaN ELSE Frac(Abs(a.n), a.d)

FMax(a, b) == IF FLt(a, b) THEN b ELSE a

FMin(a, b) == IF FLt(b, a) THEN b ELSE a

\* sum of pnl_pct over the rows S of the ledger (no pnl_pct is NaN here)
RECURSIVE SumPct(_, _)
SumPct(ledger, S) ==
    IF S = {} THEN Int2F(0)
    ELSE LET k == CHOOSE x \in S : TRUE
         IN FAddR(FNorm(ledger[k].pnl_pct), SumPct(ledger, S \ {k}))

\* trades_df[mask]['pnl_pct'].mean(): the mean of an empty selection is NaN
mean_pnl_pct(ledger, S) ==
    IF S = {} THEN NaN
    ELSE FDivR(SumPct(ledger, S), Int2F(Cardinality(S)))

\* avg_win: guarded by winning_trades > 0
avg_win_of(ledger) ==
    IF Cardinality(Winning(ledger)) > 0
    THEN mean_pnl_pct(ledger, Winning(ledger))
    ELSE Int2F(0)

\* avg_loss: guarded by total_trades - winning_trades > 0, which also
\* counts the trades whose pnl is exactly 0
avg_loss_of(ledger) ==
    IF Len(ledger) - Cardinality(Winning(ledger)) > 0
    THEN mean_pnl_pct(ledger, Losing(ledger))
    ELSE Int2F(0)

\* (1 + trades_df['pnl_pct'] / 100).cumprod() at row k
RECURSIVE cumulative_returns(_, _)
cumulative_returns(ledger, k) ==
    LET r == FAddR(Int2F(1), FDivR(FNorm(ledger[k].pnl_pct), Int2F(100)))
    IN IF k = 1 THEN r
       ELSE FMulR(cumulative_returns(ledger, k - 1), r)

\* mutant: the drawdown is measured against the first cumulative return
running_max_first(ledger, k) == cumulative_returns(ledger, 1)

\* cumulative_returns.cummax() at row k
RECURSIVE running_max(_, _)
running_max(ledger, k) ==
    IF k = 1 THEN cumulative_returns(ledger, 1)
    ELSE FMax(running_max(ledger, k - 1), cumulative_returns(ledger, k))

\* (cumulative_returns - running_max) / running_max * 100 at row k
drawdowns(ledger, k) ==
    FMulR(FDivR(FSubR(cumulative_returns(ledger, k), running_max(ledger, k)),
                running_max(ledger, k)),
          Int2F(100))

\* drawdowns.min() over rows 1..k
RECURSIVE drawdowns_min(_, _)
drawdowns_min(ledger, k) ==
    IF k = 1 THEN drawdowns(ledger, 1)
    ELSE FMin(drawdowns_min(ledger, k - 1), drawdowns(ledger, k))

\* BacktestRunner.calculate_max_drawdown
calculate_max_drawdown(ledger) ==
    IF ledger = <<>> THEN Int2F(0)
    ELSE FAbs(drawdowns_min(ledger, Len(ledger)))

\* the results object after calculate_metrics(ledger): left as it was for an
\* empty ledger (the early return), replaced otherwise
calculate_metrics(res, ledger, balance) ==
    IF ledger = <<>> THEN res
    ELSE [trades |-> ledger,
          metrics |-> Some([total_trades |-> Len(ledger),
                            winning_trades |-> Cardinality(Winning(ledger)),
                            win_rate |-> Frac(Cardinality(Winning(ledger)) * 100, Len(ledger)),
                            total_pnl |-> SumPnl(ledger),
                            total_pnl_pct |-> Frac(SumPnl(ledger) * 100, initial_balance),
                            avg_win_pct |-> avg_win_of(ledger),
                            avg_loss_pct |-> avg_loss_of(ledger),
                            max_drawdown_pct |-> calculate_max_drawdown(ledger),
                            final_balance |-> balance,
                            return_pct |-> Frac((balance - initial_balance) * 100,
                                                initial_balance)])]

\* BacktestRunner.__init__: self.results
NoResults == [trades |-> <<>>, metrics |-> None]

----------------------------------------------------------------------------
(* The runner as a state machine *)

Sim == SimState(position, current_balance, trades)

\* EMARSIScalper.__init__: no trade made, no retry counted; run_strategy has
\* not been called (its mode defaults to dry-run)
FreshStrategy ==
    /\ trade_history = <<>>
    /\ retry_count = 0
    /\ mode = "dry-run"
    /\ order_amount = 0

Init ==
    /\ config \in Configs
    /\ current_position = None
    /\ df = <<>>
    /\ i = 0
    /\ pc = "idle"
    /\ position = None
    /\ current_balance = initial_balance
    /\ trades = <<>>
    /\ results = NoResults
    /\ runs = 0
    /\ ret = None
    /\ FreshStrategy

\* run_backtest up to the loop: fetch the bars, compute the indicators once
\* over the whole frame, reset ledger, balance and position
StartRun ==
    /\ pc \in {"idle", "done"}
    /\ runs < MaxRuns
    /\ \E bars \in Histories : df' = calculate_indicators(config, bars)
    /\ i' = 0
    /\ position' = None
    /\ current_balance' = initial_balance
    /\ trades' = <<>>
    /\ runs' = runs + 1
    /\ pc' = "loop"
    /\ UNCHANGED <<config, current_position, results, ret>>
    /\ UNCHANGED live_vars

\* one iteration of `for i in range(len(df))`
ProcessBar ==
    /\ pc = "loop"
    /\ i < Len(df)
    /\ LET s == process_bar(config, current_position, Sim, df, i + 1) IN
        /\ position' = s.position
        /\ current_balance' = s.current_balance
        /\ trades' = s.trades
    /\ i' = i + 1
    /\ UNCHANGED <<config, current_position, df, pc, results, runs, ret>>
    /\ UNCHANGED live_vars

\* the loop is over: forced close, calculate_metrics, return self.results.
\* The frame is a local of run_backtest and is gone on return; the ledger is
\* kept as the call left it until the next call starts
FinishRun ==
    /\ pc = "loop"
    /\ i = Len(df)
    /\ LET s == force_close(Sim, df) IN
        /\ position' = s.position
        /\ current_balance' = s.current_balance
        /\ trades' = s.trades
        /\ results' = calculate_metrics(results, s.trades, s.current_balance)
    /\ df' = <<>>
    /\ i' = 0
    /\ pc' = "done"
    /\ UNCHANGED <<config, current_position, runs, ret>>
    /\ UNCHANGED live_vars

Next == StartRun \/ ProcessBar \/ FinishRun

Spec == Init /\ [][Next]_vars

\* a fresh runner's first call of run_backtest, taken alone
FirstRun == runs = 0 /\ StartRun

NextFirstRun == FirstRun \/ ProcessBar \/ FinishRun

SpecFirstRun == Init /\ [][NextFirstRun]_vars

----------------------------------------------------------------------------
(* The evaluators called on their own: one call of should_enter or of      *)
(* should_exit on a strategy object, on any history of the bounded set,    *)
(* with or without a position held by the strategy.                        *)

EvalHistories == UNION {BarSeqs(tf, n) : tf \in EvalTimeframes, n \in 0..MaxBars}

\* the strategy's current_position while it holds one: the buy trade
HeldPosition == Some([side |-> "buy", amount |-> 100, price |-> 1000, entry_time |-> 0])

EvalInit ==
    /\ config \in Configs
    /\ current_position \in {None, HeldPosition}
    /\ \E bars \in EvalHistories : df = calculate_indicators(config, bars)
    /\ i = 0
    /\ pc = "call"
    /\ position = None
    /\ current_balance = initial_balance
    /\ trades = <<>>
    /\ results = NoResults
    /\ runs = 0
    /\ ret = None
    /\ FreshStrategy

CallShouldEnter ==
    /\ pc = "call"
    /\ ret' = Some([fn |-> "should_enter", entry_price |-> 0, entry_time |-> 0,
                    result |-> should_enter(config, df)])
    /\ pc' = "returned"
    /\ UNCHANGED <<config, current_position, df, i, position, current_balance,
                   trades, results, runs>>
    /\ UNCHANGED live_vars

\* entry_time is no later than the current bar; df.iloc[-1] needs a row
CallShouldExit ==
    /\ pc = "call"
    /\ Len(df) >= 1
    /\ \E entry_price \in EntryPrices, entry_time \in EntryTimes :
        /\ entry_time <= df[Len(df)].timestamp
        /\ ret' = Some([fn |-> "should_exit", entry_price |-> entry_price,
                        entry_time |-> entry_time,
                        result |-> should_exit(config, current_position, df,
                                               entry_price, entry_time)])
    /\ pc' = "returned"
    /\ UNCHANGED <<config, current_position, df, i, position, current_balance,
                   trades, results, runs>>
    /\ UNCHANGED live_vars

EvalNext == CallShouldEnter \/ CallShouldExit

SpecEval == EvalInit /\ [][EvalNext]_vars

----------------------------------------------------------------------------
(* calculate_metrics called on its own, on any ledger of the bounded set   *)

\* the reason a trade of p percent is booked under (the metrics do not read it)
ReasonOf(p) ==
    IF p > 0 THEN "Take profit hit"
    ELSE IF p < 0 THEN "Stop loss hit"
    ELSE "Max holding time reached"

\* the loop state after one more round trip: one unit bought at 100 at
\* minute 10(n-1) and sold p percent higher at minute 10(n-1) + 5, booked by
\* the exit branch
round_trip(s, n, p) ==
    close_position(SimState(Some([entry_price |-> 100, amount |-> 1,
                                  entry_time |-> 10 * (n - 1),
                                  entry_balance |-> s.current_balance]),
                            s.current_balance - 100,
                            s.trades),
                   Bar(10 * (n - 1) + 5, 100 + p, 0),
                   ReasonOf(p))

\* the loop states with n trades booked
RECURSIVE LedgerStates(_)
LedgerStates(n) ==
    IF n = 0 THEN {SimInit}
    ELSE {round_trip(s, n, p) : s \in LedgerStates(n - 1), p \in TradePcts}

MetricsInit ==
    /\ config \in Configs
    /\ current_position = None
    /\ df = <<>>
    /\ i = 0
    /\ pc = "call"
    /\ position = None
    /\ \E n \in 0..MaxTrades : \E s \in LedgerStates(n) :
        /\ trades = s.trades
        /\ current_balance = s.current_balance
    /\ results = NoResults
    /\ runs = 0
    /\ ret = None
    /\ FreshStrategy

CallCalculateMetrics ==
    /\ pc = "call"
    /\ results' = calculate_metrics(results, trades, current_balance)
    /\ pc' = "returned"
    /\ UNCHANGED <<config, current_position, df, i, position, current_balance,
                   trades, runs, ret>>
    /\ UNCHANGED live_vars

MetricsNext == CallCalculateMetrics

SpecMetrics == MetricsInit /\ [][MetricsNext]_vars

----------------------------------------------------------------------------
(* calculate_position_size called on its own *)

SizerConfigs == {[StrategyConfig EXCEPT !.max_position_size = f] : f \in MaxPositionSizes}

SizerInit ==
    /\ config \in SizerConfigs
    /\ current_position = None
    /\ df = <<>>
    /\ i = 0
    /\ pc = "call"
    /\ position = None
    /\ current_balance = initial_balance
    /\ trades = <<>>
    /\ results = NoResults
    /\ runs = 0
    /\ ret = None
    /\ FreshStrategy

CallCalculatePositionSize ==
    /\ pc = "call"
    /\ \E balance \in SizerBalances, current_price \in SizerPrices :
        ret' = Some([fn |-> "calculate_position_size", balance |-> balance,
                     current_price |-> current_price,
                     result |-> calculate_position_size(config, balance, current_price)])
    /\ pc' = "returned"
    /\ UNCHANGED <<config, current_position, df, i, position, current_balance,
                   trades, results, runs>>
    /\ UNCHANGED live_vars

SizerNext == CallCalculatePositionSize

SpecSizer == SizerInit /\ [][SizerNext]_vars

----------------------------------------------------------------------------
(* The live loop: EMARSIScalper.run_strategy with execute_trade and        *)
(* _handle_api_error.  One action per exchange call (fetch_ohlcv,          *)
(* fetch_balance, create_order), each with the code that follows the call  *)
(* up to the next one.  A call succeeds, or raises an error whose message  *)
(* holds 403 or 429 ("retryable"), or raises any other error ("fatal").    *)
(* A fetch returns the candles up to now: a frame of the bounded set whose *)
(* last bar is no older than the entry of the position held.               *)

\* EMARSIScalper.__init__: self.max_retries
max_retries == 3

Modes == {"dry-run", "live"}

Outcomes == {"ok", "retryable", "fatal"}

LiveHistories == UNION {BarSeqs(tf, n) : tf \in Timeframes, n \in 0..MaxLiveBars}

\* _handle_api_error: whether to retry, and retry_count afterwards
handle_api_error(error, count) ==
    IF error = "retryable"
    THEN IF count < max_retries
         THEN [retry |-> TRUE, retry_count |-> count + 1]
         ELSE [retry |-> FALSE, retry_count |-> count]
    ELSE [retry |-> FALSE, retry_count |-> count]

\* the record execute_trade appends to trade_history (its symbol, wall-clock
\* timestamp, mode and order id are left out)
Trade(side, amt, price) == [side |-> side, amount |-> amt, price |-> price]

\* the outcome of an exchange call, with the number of retryable failures in
\* a row that it closes (0 unless it is one itself)
Called(fn, outcome) ==
    Some([fn |-> fn, result |-> outcome,
          failures |-> IF outcome # "retryable" THEN 0
                       ELSE IF ret = None THEN 1 ELSE ret[1].failures + 1])

\* the end of an iteration that ran through: retry_count is reset and the
\* loop goes back to the fetch; the frame is a local of the iteration
EndIteration ==
    /\ retry_count' = 0
    /\ pc' = "fetch"
    /\ df' = <<>>
    /\ order_amount' = 0

backtest_vars == <<i, position, current_balance, trades, results, runs>>

LiveInit ==
    /\ config \in Configs
    /\ current_position = None
    /\ df = <<>>
    /\ i = 0
    /\ pc = "fetch"
    /\ position = None
    /\ current_balance = initial_balance
    /\ trades = <<>>
    /\ results = NoResults
    /\ runs = 0
    /\ ret = None
    /\ trade_history = <<>>
    /\ retry_count = 0
    /\ mode \in Modes
    /\ order_amount = 0

\* fetch_ohlcv, calculate_indicators and the entry or exit check.  An error
\* is caught by the outer handler: retry, or break
FetchCandles ==
    /\ pc = "fetch"
    /\ Len(trade_history) < MaxLiveTrades
    /\ \E outcome \in Outcomes :
        /\ ret' = Called("fetch_ohlcv", outcome)
        /\ IF outcome = "ok"
           THEN \E bars \in LiveHistories :
                  LET d == calculate_indicators(config, bars) IN
                  IF current_position = None
                  THEN IF should_enter(config, d).ok
                       THEN /\ pc' = "balance"
                            /\ df' = d
                            /\ UNCHANGED <<retry_count, order_amount>>
                       ELSE EndIteration
                  ELSE /\ Len(bars) >= 1
                       /\ bars[Len(bars)].timestamp >= current_position[1].entry_time
                       /\ IF should_exit(config, current_position, d,
                                         current_position[1].price,
                                         current_position[1].entry_time).ok
                          THEN /\ pc' = "sell"
                               /\ df' = d
                               /\ UNCHANGED <<retry_count, order_amount>>
                          ELSE EndIteration
           ELSE LET h == handle_api_error(outcome, retry_count) IN
                /\ retry_count' = h.retry_count
                /\ pc' = IF h.retry THEN "fetch" ELSE "stopped"
                /\ UNCHANGED <<df, order_amount>>
    /\ UNCHANGED <<config, current_position, trade_history, mode, backtest_vars>>

\* fetch_balance and calculate_position_size.  An error is caught by the
\* inner handler of the entry branch: retry (continue), or log and go on
\* with the rest of the iteration
FetchBalance ==
    /\ pc = "balance"
    /\ \E outcome \in Outcomes :
        /\ ret' = Called("fetch_balance", outcome)
        /\ IF outcome = "ok"
           THEN /\ \E balance \in LiveBalances :
                    order_amount' = calculate_position_size(config, balance,
                                                            df[Len(df)].close)
                /\ pc' = "buy"
                /\ UNCHANGED <<df, retry_count>>
           ELSE LET h == handle_api_error(outcome, retry_count) IN
                IF h.retry
                THEN /\ retry_count' = h.retry_count
                     /\ pc' = "fetch"
                     /\ df' = <<>>
                     /\ order_amount' = 0
                ELSE EndIteration
    /\ UNCHANGED <<config, current_position, trade_history, mode, backtest_vars>>

\* the outcomes of execute_trade's order: no exchange call in dry-run mode
OrderOutcomes == IF mode = "live" THEN Outcomes ELSE {"ok"}

\* execute_trade(side='buy') and the assignment of its result.  An error of
\* create_order is handled inside execute_trade: retry (the recursive call),
\* or return None
SubmitBuy ==
    /\ pc = "buy"
    /\ \E outcome \in OrderOutcomes :
        /\ ret' = IF mode = "live" THEN Called("create_order", outcome) ELSE ret
        /\ IF outcome = "ok"
           THEN /\ trade_history' = Append(trade_history,
                                           Trade("buy", order_amount, df[Len(df)].close))
                /\ current_position' = Some([side |-> "buy", amount |-> order_amount,
                                             price |-> df[Len(df)].close,
                                             entry_time |-> df[Len(df)].timestamp])
                /\ EndIteration
           ELSE LET h == handle_api_error(outcome, retry_count) IN
                IF h.retry
                THEN /\ retry_count' = h.retry_count
                     /\ UNCHANGED <<pc, df, order_amount, current_position, trade_history>>
                ELSE /\ current_position' = None
                     /\ EndIteration
                     /\ UNCHANGED trade_history
    /\ UNCHANGED <<config, mode, backtest_vars>>

\* execute_trade(side='sell'); its result is not looked at and
\* current_position is set to None after the call
SubmitSell ==
    /\ pc = "sell"
    /\ \E outcome \in OrderOutcomes :
        /\ ret' = IF mode = "live" THEN Called("create_order", outcome) ELSE ret
        /\ IF outcome = "ok"
           THEN /\ trade_history' = Append(trade_history,
                                           Trade("sell", current_position[1].amount,
                                                 df[Len(df)].close))
                /\ current_position' = None
                /\ EndIteration
           ELSE LET h == handle_api_error(outcome, retry_count) IN
                IF h.retry
                THEN /\ retry_count' = h.retry_count
                     /\ UNCHANGED <<pc, df, order_amount, current_position, trade_history>>
                ELSE /\ current_position' = None
                     /\ EndIteration
                     /\ UNCHANGED trade_history
    /\ UNCHANGED <<config, mode, backtest_vars>>

LiveNext == FetchCandles \/ FetchBalance \/ SubmitBuy \/ SubmitSell

SpecLive == LiveInit /\ [][LiveNext]_vars

----------------------------------------------------------------------------
(* Properties of the backtest simulator (checked under Spec) *)

\* every trade ends no earlier than it starts, and starts strictly after the
\* trade before it ended
LedgerOrdered(ledger) ==
    /\ \A k \in 1..Len(ledger) : ledger[k].entry_time <= ledger[k].exit_time
    /\ \A k \in 2..Len(ledger) : ledger[k].entry_time > ledger[k - 1].exit_time

\* a step that opens a position: the runner holds one it did not hold before
OpensPosition == position' # None /\ position' # position

\* C1: over any bar sequence with strictly increasing timestamps, an entry
\* is only taken while flat, so at most one position is open after every
\* processed bar, and the ledger is time-ordered and non-overlapping: every
\* trade has entry_time <= exit_time and starts strictly after the exit of
\* the trade appended before it.
C1_SinglePositionOrderedLedger ==
    /\ [](LedgerOrdered(trades) /\ Len(position) <= 1)
    /\ [][OpensPosition => position = None /\ pc = "loop"]_vars

\* a position entered on an earlier bar is open on a bar where should_enter
\* signals an entry again, and the loop has left it as it was
C1_Witness ==
    /\ pc = "loop"
    /\ i >= 1
    /\ position # None
    /\ position[1].entry_time < df[i].timestamp
    /\ should_enter(config, iloc_to(df, i)).ok

\* the exit rules of should_exit select an exit on the last processed bar for
\* the position the runner holds
ExitRuleMatches ==
    exit_rules(config, iloc_to(df, i), position[1].entry_price,
               position[1].entry_time).ok

\* C2: whenever a position is open at bar i and the exit rules select an
\* exit at bar i, the simulator closes the position at that bar: no
\* position entered on an earlier bar is still open after a bar at which an
\* exit rule matches.
C2_ExitTakenAtMatchingBar ==
    (pc = "loop" /\ i >= 1 /\ position # None
        /\ position[1].entry_time < df[i].timestamp)
    => ~ExitRuleMatches

\* the step in which run_backtest leaves the loop and returns
Returns == pc = "loop" /\ pc' = "done"

\* C3: when the last bar has been processed and a position is still open,
\* exactly one further trade is appended, with the final bar's close as
\* exit_price, the final bar's timestamp as exit_time and the reason
\* "Backtest period ended"; the runner is flat whenever run_backtest has
\* returned.
C3_ForcedCloseAtEnd ==
    /\ [](pc = "done" => position = None)
    /\ [][Returns =>
            IF position # None
            THEN /\ Len(trades') = Len(trades) + 1
                 /\ SubSeq(trades', 1, Len(trades)) = trades
                 /\ trades'[Len(trades')].exit_price = df[Len(df)].close
                 /\ trades'[Len(trades')].exit_time = df[Len(df)].timestamp
                 /\ trades'[Len(trades')].reason = "Backtest period ended"
                 /\ trades'[Len(trades')].entry_time = position[1].entry_time
            ELSE trades' = trades]_vars

\* a run has returned after force-closing a position
C3_Witness ==
    /\ pc = "done"
    /\ trades # <<>>
    /\ trades[Len(trades)].reason = "Backtest period ended"
    /\ position = None

\* C4: for every completed run the ending balance reconciles with the
\* ledger: final balance = initial balance + sum of pnl over the ledger's
\* trades, for the runner's balance and for the metrics computed from it.
C4_BalanceReconciles ==
    pc = "done" =>
        /\ current_balance = initial_balance + SumPnl(trades)
        /\ trades # <<>> =>
            /\ results.metrics # None
            /\ results.metrics[1].final_balance
                 = initial_balance + results.metrics[1].total_pnl

\* a completed run whose only trade made a loss
C4_Witness ==
    /\ pc = "done"
    /\ trades # <<>>
    /\ trades[1].pnl < 0
    /\ current_balance < initial_balance

\* the frame computed from scratch over the first n bars only
PrefixFrame(n) == calculate_indicators(config, BarsOf(iloc_to(df, n)))

\* (checked under SpecFirstRun: the loop reads nothing an earlier run left)
\* C9: no lookahead.  The indicator values the evaluators see at bar i, cut
\* from the frame computed once over the whole series, equal those computed
\* from scratch over bars 0..i, and every iteration of the loop leaves the
\* state (position, balance, ledger) that the same iteration leaves on the
\* frame of bars 0..i alone: so two series that agree on bars 0..i leave the
\* same state after bar i.
C9_NoLookahead ==
    /\ [](pc = "loop" => iloc_to(df, i) = PrefixFrame(i))
    /\ [][(pc = "loop" /\ i' = i + 1) =>
            LET s == process_bar(config, current_position, Sim,
                                 PrefixFrame(i + 1), i + 1)
            IN /\ position' = s.position
               /\ current_balance' = s.current_balance
               /\ trades' = s.trades]_vars

\* a position has been entered and bars the loop has not seen yet follow,
\* with a close and a volume other than the current bar's
C9_Witness ==
    /\ pc = "loop"
    /\ position # None
    /\ i < Len(df)
    /\ df[i + 1].close # df[i].close
    /\ df[i + 1].volume # df[i].volume

\* C10: a run in which should_enter is false at every bar produces an empty
\* ledger, leaves the balance at the initial balance and returns the
\* "no trades" result (an empty ledger and no metrics).
C10_NoTradesResult ==
    (pc = "done" /\ trades = <<>>)
    => /\ current_balance = initial_balance
       /\ results = NoResults

\* C11: after any sequence of run_backtest calls on one runner the returned
\* result reflects the most recent run only: its ledger is the trades of
\* that run, and a run without trades returns the empty ledger and the
\* no-trades metrics even when an earlier run on the runner had trades.
C11_ResultOfLastRunOnly ==
    pc = "done" =>
        /\ results.trades = trades
        /\ (results.metrics = None) = (trades = <<>>)

\* no close of the RSI window ending at row k lies below the close before
\* it: every loss of the window is zero, and so is their average
ZeroLossWindow(k) ==
    \A j \in (k - config.rsi_period + 1)..k :
        j > 1 => df[j].close >= df[j - 1].close

\* (checked under SpecFirstRun, on the frame calculate_indicators returned)
\* C14: for every bar at index >= rsi_period-1 whose trailing window has an
\* average loss of exactly zero, calculate_indicators yields RSI = 100, a
\* defined number, whatever the average gain of the window is.
C14_ZeroLossRsi100 ==
    \A k \in 1..Len(df) :
        (k >= config.rsi_period /\ ZeroLossWindow(k))
        => /\ ~df[k].rsi.nan
           /\ df[k].rsi.n = 100 * df[k].rsi.d

\* what the open position cost at entry, 0 when flat
OpenCost ==
    IF position = None THEN 0 ELSE position[1].amount * position[1].entry_price

\* a trade's own figures agree
TradeBooked(t) ==
    /\ t.pnl = t.amount * (t.exit_price - t.entry_price)
    /\ t.exit_balance = t.entry_balance + t.pnl

\* (checked under SpecFirstRun)
\* C19: bookkeeping is consistent after every processed bar, so a run
\* stopped at any bar leaves a valid partial state: balance + the cost of
\* the open position (0 when flat) = initial balance + sum of pnl over the
\* trades appended so far; every appended trade has
\* pnl = amount * (exit_price - entry_price) and
\* exit_balance = entry_balance + pnl, and is not modified afterwards.
C19_BookkeepingConsistent ==
    /\ [](/\ current_balance + OpenCost = initial_balance + SumPnl(trades)
          /\ \A k \in 1..Len(trades) : TradeBooked(trades[k]))
    /\ [][pc = "loop" =>
            /\ Len(trades') >= Len(trades)
            /\ SubSeq(trades', 1, Len(trades)) = trades]_vars

\* the loop is between two bars with a position open and its cost debited
C19_Witness ==
    /\ pc = "loop"
    /\ i < Len(df)
    /\ position # None
    /\ trades = <<>>
    /\ current_balance = initial_balance - position[1].amount * position[1].entry_price

\* (checked under SpecFirstRun)
\* C20: the simulator never spends more than it has: with a positive
\* initial balance, positive prices and 0 < max_position_size <= 1 the
\* running balance is >= 0 after every step of run_backtest, so the cost
\* amount * price debited at entry never exceeds the balance of that bar.
C20_BalanceNeverNegative == current_balance >= 0

----------------------------------------------------------------------------
(* Properties of the metrics (checked under SpecMetrics) *)

\* calculate_metrics has returned for a non-empty ledger
MetricsOf == results.metrics[1]

MetricsReturned == pc = "returned" /\ trades # <<>> /\ results.metrics # None

FEq(a, b) == ~a.nan /\ ~b.nan /\ a.n * b.d = b.n * a.d

\* x is the mean of pnl_pct over the rows S, or 0 when there are none
IsMeanOrZero(x, S) ==
    IF S = {} THEN FEq(x, Int2F(0))
    ELSE FEq(FMulR(x, Int2F(Cardinality(S))), SumPct(trades, S))

\* C12: for every non-empty ledger avg_win_pct is the mean of pnl_pct over
\* the trades with pnl > 0 and avg_loss_pct the mean over those with
\* pnl < 0, and each is 0, a defined number, when its subset is empty, also
\* for ledgers that hold trades with pnl exactly 0.
C12_AvgWinLossDefined ==
    MetricsReturned =>
        /\ IsMeanOrZero(MetricsOf.avg_win_pct, {k \in 1..Len(trades) : trades[k].pnl > 0})
        /\ IsMeanOrZero(MetricsOf.avg_loss_pct, {k \in 1..Len(trades) : trades[k].pnl < 0})

\* the product of exit_price, and of entry_price, over the trades j+1..k:
\* their quotient is the cumulative return at k over the one at j
RECURSIVE ExitProduct(_, _)
ExitProduct(j, k) == IF k <= j THEN 1 ELSE trades[k].exit_price * ExitProduct(j, k - 1)

RECURSIVE EntryProduct(_, _)
EntryProduct(j, k) == IF k <= j THEN 1 ELSE trades[k].entry_price * EntryProduct(j, k - 1)

\* the percent drop from the cumulative return at j to the one at k, which
\* is 100 * (1 - c_k / c_j), compared with the number x
DropAtMost(j, k, x) ==
    100 * (EntryProduct(j, k) - ExitProduct(j, k)) * x.d <= x.n * EntryProduct(j, k)

DropEquals(j, k, x) ==
    100 * (EntryProduct(j, k) - ExitProduct(j, k)) * x.d = x.n * EntryProduct(j, k)

\* the ledger's pnl_pct column is the sequence pcts
PnlPctsAre(pcts) ==
    /\ Len(trades) = Len(pcts)
    /\ \A k \in 1..Len(pcts) : FEq(trades[k].pnl_pct, Int2F(pcts[k]))

\* C13: for every non-empty ledger max_drawdown is abs(min_k d_k), with c_k
\* the running product of (1 + pnl_pct_j/100), m_k = max(c_1..c_k) and
\* d_k = (c_k - m_k)/m_k*100: that is, the largest percent drop from a
\* cumulative return c_j to a later (or the same) one c_k; for the pnl_pct
\* sequence [10, -20, 5] it is 20 percent.
C13_MaxDrawdown ==
    MetricsReturned =>
        LET dd == MetricsOf.max_drawdown_pct
            rows == 1..Len(trades)
        IN /\ ~dd.nan
           /\ \A j \in rows : \A k \in j..Len(trades) : DropAtMost(j, k, dd)
           /\ \E j \in rows : \E k \in j..Len(trades) : DropEquals(j, k, dd)
           /\ PnlPctsAre(<<10, -20, 5>>) => FEq(dd, Int2F(20))

\* the metrics of the ledger with pnl_pct [10, -20, 5]
C13_Witness ==
    /\ MetricsReturned
    /\ PnlPctsAre(<<10, -20, 5>>)
    /\ FEq(MetricsOf.max_drawdown_pct, Int2F(20))

----------------------------------------------------------------------------
(* Properties of the evaluators (checked under SpecEval) *)

ReturnedFrom(fn) == pc = "returned" /\ ret # None /\ ret[1].fn = fn

Last == df[Len(df)]

Prev == df[Len(df) - 1]

\* the five entry conditions, read off the last rows of the history; a
\* comparison with an undefined (NaN) indicator does not hold
EnoughData == Len(df) >= config.ema_trend

AboveTrend == ~Last.ema_trend.nan /\ Last.close * Last.ema_trend.d > Last.ema_trend.n

CrossedUp ==
    /\ Prev.ema_fast.n * Prev.ema_slow.d <= Prev.ema_slow.n * Prev.ema_fast.d
    /\ Last.ema_fast.n * Last.ema_slow.d > Last.ema_slow.n * Last.ema_fast.d

RsiInBand ==
    /\ ~Last.rsi.nan
    /\ config.rsi_lower * Last.rsi.d <= Last.rsi.n
    /\ Last.rsi.n <= config.rsi_upper * Last.rsi.d

VolumeSpike ==
    /\ ~Last.volume_ratio.nan
    /\ Last.volume_ratio.n * 100 >= config.volume_spike_threshold * Last.volume_ratio.d

FirstViolated ==
    IF ~EnoughData THEN "Insufficient data"
    ELSE IF ~AboveTrend THEN "Price below 200 EMA"
    ELSE IF ~CrossedUp THEN "No EMA crossover"
    ELSE IF ~RsiInBand THEN "RSI outside range"
    ELSE IF ~VolumeSpike THEN "No volume spike"
    ELSE "All conditions met"

\* C5: for every history should_enter returns true iff all five ordered
\* conditions hold (enough data, close above the trend EMA, fast EMA crossed
\* above slow, RSI inside the band, volume ratio at or above the spike
\* threshold), and the reason is that of the first violated condition, or
\* "All conditions met".
C5_EnterIffAllFive ==
    ReturnedFrom("should_enter") =>
        /\ ret[1].result.ok = (FirstViolated = "All conditions met")
        /\ ret[1].result.reason = FirstViolated

\* C6: for every history shorter than the trend EMA span should_enter
\* returns (false, "Insufficient data"), whatever the indicator values are.
C6_ShortHistoryInsufficient ==
    (ReturnedFrom("should_enter") /\ Len(df) < config.ema_trend)
    => ret[1].result = Result(FALSE, "Insufficient data")

\* a history one bar short of the trend span whose last bar closes above the
\* trend EMA with the fast EMA crossing up
C6_Witness ==
    /\ ReturnedFrom("should_enter")
    /\ Len(df) = config.ema_trend - 1
    /\ Len(df) >= 2
    /\ AboveTrend
    /\ CrossedUp
    /\ ret[1].result.reason = "Insufficient data"

\* holding time and profit of a should_exit call, from its arguments
HoldingMinutes == Last.timestamp - ret[1].entry_time

\* pnl_pct >= x/10 percent, pnl_pct <= -x/10 percent (entry_price > 0)
PnlAtLeast(x) == (Last.close - ret[1].entry_price) * 1000 >= x * ret[1].entry_price

PnlAtMostMinus(x) == (Last.close - ret[1].entry_price) * 1000 <= -x * ret[1].entry_price

HeldExitCall == ReturnedFrom("should_exit") /\ current_position # None

\* C7: for every should_exit evaluation of an open position with
\* holding_minutes >= max_holding_time the result is an exit with reason
\* "Max holding time reached", whatever else holds at that bar: in
\* particular when pnl_pct >= take_profit_pct as well.
C7_MaxHoldingWins ==
    (HeldExitCall /\ HoldingMinutes >= config.max_holding_time)
    => ret[1].result = Result(TRUE, "Max holding time reached")

\* both the maximum holding time and the take profit are reached
C7_Witness ==
    /\ HeldExitCall
    /\ HoldingMinutes >= config.max_holding_time
    /\ PnlAtLeast(config.take_profit_pct)
    /\ ret[1].result.reason = "Max holding time reached"

\* C8: for every should_exit evaluation of an open position with
\* holding_minutes < min_holding_time, the result is an exit only if
\* pnl_pct <= -stop_loss_pct; otherwise the result is no exit with reason
\* "Minimum holding time not reached", even when the take profit holds.
C8_MinHoldingBlocks ==
    (HeldExitCall /\ HoldingMinutes < config.min_holding_time)
    => /\ ret[1].result.ok => PnlAtMostMinus(config.stop_loss_pct)
       /\ ~PnlAtMostMinus(config.stop_loss_pct)
            => ret[1].result = Result(FALSE, "Minimum holding time not reached")

\* the take profit is reached before the minimum holding time and is blocked
C8_Witness ==
    /\ HeldExitCall
    /\ HoldingMinutes < config.min_holding_time
    /\ PnlAtLeast(config.take_profit_pct)
    /\ ret[1].result = Result(FALSE, "Minimum holding time not reached")

\* the stop loss is hit before the minimum holding time and exits
C8_StopLossWitness ==
    /\ HeldExitCall
    /\ HoldingMinutes < config.min_holding_time
    /\ ret[1].result = Result(TRUE, "Stop loss hit")

\* the fast EMA was at or above the slow one on the bar before the last and
\* is below it on the last
CrossedDown ==
    /\ Prev.ema_fast.n * Prev.ema_slow.d >= Prev.ema_slow.n * Prev.ema_fast.d
    /\ Last.ema_fast.n * Last.ema_slow.d < Last.ema_slow.n * Last.ema_fast.d

\* the bars of the history from the entry on
SinceEntry == {j \in 1..Len(df) : df[j].timestamp >= ret[1].entry_time}

\* the most favourable close seen since entry
PeakSinceEntry ==
    LET j == CHOOSE x \in SinceEntry : \A y \in SinceEntry : df[y].close <= df[x].close
    IN df[j].close

\* the position's pnl_pct has reached the activation level on some bar since
\* entry, and the last close lies more than trailing_stop_pct percent below
\* the most favourable close since entry, with no other exit rule matching
TrailingStopCase ==
    /\ HeldExitCall
    /\ Len(df) >= 2
    /\ HoldingMinutes >= config.min_holding_time
    /\ HoldingMinutes < config.max_holding_time
    /\ ~PnlAtLeast(config.take_profit_pct)
    /\ ~PnlAtMostMinus(config.stop_loss_pct)
    /\ ~CrossedDown
    /\ \E j \in SinceEntry :
        (df[j].close - ret[1].entry_price) * 1000
            >= config.trailing_stop_activation_pct * ret[1].entry_price
    /\ Last.close * 1000 < PeakSinceEntry * (1000 - config.trailing_stop_pct)

\* C16: the trailing stop is an effective exit: once the pnl_pct of an
\* open position has reached trailing_stop_activation_pct, a later bar that
\* closes more than trailing_stop_pct percent below the most favourable
\* close since entry (holding time between min and max, pnl_pct strictly
\* between -stop_loss_pct and take_profit_pct, no EMA cross-down) makes
\* should_exit return an exit with reason "Trailing stop hit".
C16_TrailingStopExits ==
    TrailingStopCase => ret[1].result = Result(TRUE, "Trailing stop hit")

\* the last close is below entry_price * (1 + (pnl_pct - trailing_stop_pct)/100),
\* both sides multiplied by 1000
BelowTrailingStopPrice ==
    Last.close * 1000
        < ret[1].entry_price * 1000
          + (Last.close - ret[1].entry_price) * 1000
          - config.trailing_stop_pct * ret[1].entry_price

\* the rules in their order, each with the result it gives
ExitDecisionTable ==
    IF HoldingMinutes >= config.max_holding_time
    THEN Result(TRUE, "Max holding time reached")
    ELSE IF HoldingMinutes < config.min_holding_time
            /\ ~PnlAtMostMinus(config.stop_loss_pct)
    THEN Result(FALSE, "Minimum holding time not reached")
    ELSE IF PnlAtLeast(config.take_profit_pct)
    THEN Result(TRUE, "Take profit hit")
    ELSE IF PnlAtMostMinus(config.stop_loss_pct)
    THEN Result(TRUE, "Stop loss hit")
    ELSE IF PnlAtLeast(config.trailing_stop_activation_pct) /\ BelowTrailingStopPrice
    THEN Result(TRUE, "Trailing stop hit")
    ELSE IF HoldingMinutes >= config.min_holding_time /\ CrossedDown
    THEN Result(TRUE, "EMA cross exit")
    ELSE Result(FALSE, "Holding position")

\* C17: while the strategy holds a position should_exit is the decision
\* table in fixed precedence: max holding time, the minimum-holding block,
\* take profit, stop loss, trailing stop, EMA cross-down (only from the
\* minimum holding time on), else (false, "Holding position"); the result is
\* that of the first rule whose condition holds, and the call changes no
\* state.
C17_ExitDecisionTable ==
    /\ [](HeldExitCall => ret[1].result = ExitDecisionTable)
    /\ [][(pc' = "returned" /\ ret'[1].fn = "should_exit") =>
            UNCHANGED <<config, current_position, df, i, position,
                        current_balance, trades, results, runs, live_vars>>]_vars

\* the last rule with an exit is reached: the EMAs cross down from equal
\* values while no rule above matches
C17_Witness ==
    /\ HeldExitCall
    /\ ret[1].result = Result(TRUE, "EMA cross exit")
    /\ Prev.ema_fast.n * Prev.ema_slow.d = Prev.ema_slow.n * Prev.ema_fast.d
    /\ ~PnlAtLeast(config.trailing_stop_activation_pct)

\* C18: should_enter never returns true when the last bar's rsi or
\* volume_ratio is undefined (window not filled, or a 0/0 ratio such as zero
\* volume over the whole volume window): an undefined indicator satisfies
\* neither the RSI band nor the volume-spike condition.
C18_NoEntryOnUndefinedIndicator ==
    (ReturnedFrom("should_enter") /\ ret[1].result.ok)
    => /\ ~Last.rsi.nan
       /\ ~Last.volume_ratio.nan

----------------------------------------------------------------------------
(* Properties of the position sizer (checked under SpecSizer) *)

\* C15: calculate_position_size(balance, price) returns
\* min(balance * max_position_fraction, balance) for every balance and
\* price, whatever the price is, and changes no state; so for balance >= 0
\* and a fraction in (0, 1] the amount never exceeds the balance.
C15_SizeIsFractionOfBalance ==
    /\ [](ReturnedFrom("calculate_position_size") =>
            /\ 10 * ret[1].result
                 = Min(ret[1].balance * config.max_position_size, 10 * ret[1].balance)
            /\ ret[1].balance >= 0 => ret[1].result <= ret[1].balance)
    /\ [][pc' = "returned" =>
            UNCHANGED <<config, current_position, df, i, position,
                        current_balance, trades, results, runs, live_vars>>]_vars

\* a tenth of the balance is returned at a price far above the balance
C15_Witness ==
    /\ ReturnedFrom("calculate_position_size")
    /\ config.max_position_size = 1
    /\ ret[1].balance = 1000
    /\ ret[1].current_price = 50000
    /\ ret[1].result = 100

----------------------------------------------------------------------------
(* Properties of the live loop (checked under SpecLive) *)

\* buy and sell records alternate, starting with a buy
Alternates(history) ==
    \A k \in 1..Len(history) :
        history[k].side = IF k % 2 = 1 THEN "buy" ELSE "sell"

\* the last record of trade_history is a buy that no sell has followed
LastIsBuy ==
    /\ trade_history # <<>>
    /\ trade_history[Len(trade_history)].side = "buy"

\* C21: in the live loop (mode live) current_position goes from held to
\* none only after the sell order was accepted and recorded in
\* trade_history; when the order submission fails the position stays held.
\* So a position is held exactly while the last record is a buy, and buy
\* and sell records strictly alternate, starting with a buy.
C21_PositionClearedOnlyBySell ==
    mode = "live" =>
        /\ Alternates(trade_history)
        /\ (current_position # None) = LastIsBuy

\* a step that makes an exchange call: fetch_ohlcv, fetch_balance, or the
\* create_order of execute_trade in mode live
ExchangeCall ==
    \/ pc \in {"fetch", "balance"}
    \/ pc \in {"buy", "sell"} /\ mode = "live"

\* the outcome of the call just made, and the retryable failures in a row
\* up to and including it
CallOutcome == ret'[1].result

FailuresInRow == ret'[1].failures

\* C22: retries in the live loop are bounded: retry_count stays in
\* 0..max_retries; an error is retried only if it is a rate-limit/access
\* error and retry_count < max_retries; after max_retries retryable
\* failures in a row have been retried, the next such failure makes
\* run_strategy stop, whichever exchange call failed; an error that is not
\* retryable stops the loop without a retry.
C22_RetriesBounded ==
    /\ [](retry_count \in 0..max_retries)
    /\ [][ExchangeCall =>
            /\ retry_count' = retry_count + 1
                 => CallOutcome = "retryable" /\ retry_count < max_retries
            /\ (CallOutcome = "retryable" /\ FailuresInRow > max_retries)
                 => pc' = "stopped"
            /\ CallOutcome = "fatal"
                 => pc' = "stopped" /\ retry_count' = retry_count]_vars

=============================================================================
